---- MODULE Spec2Model ----
(***************************************************************************)
(* Request handling of the HIPAA API (lockdev-hippa-app): the JWT auth     *)
(* gate of utils/security.py, the routes of routes/api.py and              *)
(* routes/health.py, and the middleware stack and exception handler that   *)
(* main.py builds around them.                                             *)
(*                                                                         *)
(* Time is counted in whole minutes.  python-jose stores "exp" as an       *)
(* integer NumericDate and compares it to the integer current time, so     *)
(* every comparison of the code is a comparison of integers; the model     *)
(* takes the minute as the unit because the only lifetime the code names   *)
(* is given in minutes.                                                    *)
(***************************************************************************)
EXTENDS Integers, Sequences, FiniteSets, TLC

VARIABLES
    clock,          \* datetime.utcnow(), in minutes
    request,        \* the request being served, NoRequest between requests
    grant,          \* the create_access_token call that issued its token, if any
    response,       \* the response sent to the caller for `request`
    current_user,   \* what Depends(get_current_user) resolved to for `request`
    handler_ran,    \* TRUE iff the body of the route function was entered
    escaped,        \* the exception that left the middleware stack, NoExc if none
    counted,        \* the labels REQUEST_COUNT was incremented for by `request`
    session,        \* the calls made on the database session opened for `request`
    log,            \* the structlog entries emitted while serving `request`
    envelope_in,    \* a response as it was before setup_security_headers saw it
    envelope_out,   \* the same response object now
    applied,        \* how many times setup_security_headers was applied to it
    REQUEST_COUNT,  \* the process-wide Counter: (method, endpoint) -> value
    REQUEST_DURATION, \* the process-wide Histogram: how many observations it holds
    database,       \* the database: whether it can be reached, its tables and rows
    serving,        \* TRUE iff lifespan reached its yield: the application serves
    probe,          \* how the database answered readiness_check for `request`
    inflight,       \* concurrent requests: path, phase and log entries of each
    log_data,       \* the dict handed to sanitize_log_data
    sanitized,      \* the dict it returned, None before the call
    route,          \* the connections a client has made so far, hop by hop
    program,        \* the Pulumi program being deployed
    pc,             \* how many of its statements have been executed
    failure,        \* the exception the program ended with, NoExc if none
    created,        \* the resources the engine has created so far
    db_password,    \* the password get_random_password generated, None before
    versions,       \* the versions of the database secret, oldest first
    observed        \* what get_secret_version returned, None before the read

vars == <<clock, request, grant, response, current_user, handler_ran,
          escaped, counted, session, log, envelope_in, envelope_out, applied,
          REQUEST_COUNT, REQUEST_DURATION, database, serving, probe, inflight,
          log_data, sanitized, route, program, pc, failure, created,
          db_password, versions, observed>>

-----------------------------------------------------------------------------
(* Bounds of the model *)

\* The clock runs from 0 to MaxClock minutes.
MaxClock == 32

\* A response carries at most MaxHeaders header lines before
\* setup_security_headers is applied to it, at most MaxApply times.
MaxHeaders == 2
MaxApply == 2

\* One process serves at most MaxRequests requests before it is restarted.
MaxRequests == 3

\* Requests that can be in flight in one process at the same time.
MaxInFlight == 3

\* Containers are nested at most MaxDepth deep in the data that is sanitized.
MaxDepth == 3

\* A client makes at most MaxHops connections one after the other.
MaxHops == 5

-----------------------------------------------------------------------------
(* Configuration: utils/security.py:24-26 *)

SECRET_KEY == "your-secret-key-change-in-production"
ALGORITHM == "HS256"
ACCESS_TOKEN_EXPIRE_MINUTES == 30

-----------------------------------------------------------------------------
(* Python values *)

\* Python's None, and the two kinds of JSON value a "sub" claim holds here.
None == [tag |-> "None"]
Str(s) == [tag |-> "str", val |-> s]
Num(s) == [tag |-> "int", val |-> s]

\* isinstance(v, str)
IsStr(v) == v.tag = "str"

\* d[k] = v on a dict (and on Starlette's MutableHeaders): the key is
\* overwritten when present, added when not.
SetItem(d, k, v) == [x \in DOMAIN d \cup {k} |-> IF x = k THEN v ELSE d[x]]

EmptyDict == [x \in {} |-> ""]

\* dict.update(other)
Update(d, other) ==
    [x \in DOMAIN d \cup DOMAIN other |-> IF x \in DOMAIN other THEN other[x] ELSE d[x]]

-----------------------------------------------------------------------------
(* Tokens.  A compact JWT is modelled by what jwt.decode reads from it:    *)
(* whether it parses, the "alg" of its header, the key its signature was   *)
(* made with ("" when it carries no signature) and its claims.  HMAC is    *)
(* taken to be unforgeable: a signature verifies under a key exactly when  *)
(* it was made with that key.                                              *)

Subjects == {Str("alice"), Str(""), Num("42"), None}

Garbage ==
    [wellformed |-> FALSE, alg |-> "", key |-> "", sub |-> None, exp |-> 0]

\* jose.jwt.encode(claims, key, algorithm)
jwt_encode(claims, key, algorithm) ==
    [wellformed |-> TRUE, alg |-> algorithm, key |-> key,
     sub |-> claims.sub, exp |-> claims.exp]

\* Tokens made without the service's key at time `now`: signed with another
\* key, stripped of their signature, or declaring the "none" algorithm.
Forged(now) ==
    { [wellformed |-> TRUE, alg |-> f[1], key |-> f[2], sub |-> Str("alice"), exp |-> e] :
        f \in {<<"HS256", "attacker-key">>, <<"HS256", "">>, <<"none", "">>},
        e \in {now - 1, now + 1} }

NoError == ""

\* Variant: decoding with the signature check switched off.
jwt_decode_skips_signature(token, key, algorithms, now) ==
    IF ~token.wellformed THEN [error |-> "JWTError", sub |-> None]
    ELSE IF token.alg \notin algorithms THEN [error |-> "JWTError", sub |-> None]
    ELSE IF token.exp < now THEN [error |-> "ExpiredSignatureError", sub |-> None]
    ELSE IF token.sub # None /\ ~IsStr(token.sub)
        THEN [error |-> "JWTClaimsError", sub |-> None]
    ELSE [error |-> NoError, sub |-> token.sub]

\* Variant: decoding with the expiry check switched off.
jwt_decode_skips_expiry(token, key, algorithms, now) ==
    IF ~token.wellformed THEN [error |-> "JWTError", sub |-> None]
    ELSE IF token.alg \notin algorithms THEN [error |-> "JWTError", sub |-> None]
    ELSE IF token.key # key THEN [error |-> "JWTError", sub |-> None]
    ELSE IF token.sub # None /\ ~IsStr(token.sub)
        THEN [error |-> "JWTClaimsError", sub |-> None]
    ELSE [error |-> NoError, sub |-> token.sub]

\* jose.jwt.decode(token, key, algorithms=[...]) at time `now`: the error it
\* raises (every one a JWTError), or NoError and the payload.  A token is
\* expired when exp < now; a "sub" that is present must be a string.
jwt_decode(token, key, algorithms, now) ==
    IF ~token.wellformed THEN [error |-> "JWTError", sub |-> None]
    ELSE IF token.alg \notin algorithms THEN [error |-> "JWTError", sub |-> None]
    ELSE IF token.key # key THEN [error |-> "JWTError", sub |-> None]
    ELSE IF token.exp < now THEN [error |-> "ExpiredSignatureError", sub |-> None]
    ELSE IF token.sub # None /\ ~IsStr(token.sub)
        THEN [error |-> "JWTClaimsError", sub |-> None]
    ELSE [error |-> NoError, sub |-> token.sub]

-----------------------------------------------------------------------------
(* utils/security.py *)

\* An expires_delta argument: None, or a timedelta of so many minutes.
NoDelta == [tag |-> "None"]
Minutes(n) == [tag |-> "timedelta", minutes |-> n]
Deltas == {NoDelta, Minutes(0), Minutes(-1), Minutes(2)}

\* `if expires_delta:` - None and timedelta(0) are both falsy.
Truthy(delta) == delta # NoDelta /\ delta.minutes # 0

\* Variant: the default lifetime taken in hours instead of minutes.
create_access_token_hours(data, expires_delta, now) ==
    LET expire == IF Truthy(expires_delta)
                  THEN now + expires_delta.minutes
                  ELSE now + 60 * ACCESS_TOKEN_EXPIRE_MINUTES
    IN  jwt_encode([sub |-> data.sub, exp |-> expire], SECRET_KEY, ALGORITHM)

\* create_access_token(data, expires_delta) called at time `now`
create_access_token(data, expires_delta, now) ==
    LET expire == IF Truthy(expires_delta)
                  THEN now + expires_delta.minutes
                  ELSE now + ACCESS_TOKEN_EXPIRE_MINUTES
    IN  jwt_encode([sub |-> data.sub, exp |-> expire], SECRET_KEY, ALGORITHM)


\* HTTPBearer(auto_error=False) applied to the Authorization header: None
\* when the header is absent or its scheme is not Bearer.
NoHeader == [tag |-> "None"]
Header(scheme, token) == [tag |-> "Authorization", scheme |-> scheme, token |-> token]

\* Variant: the scheme of the Authorization header is not looked at.
security_any_scheme(authorization) ==
    IF authorization = NoHeader THEN None
    ELSE [tag |-> "HTTPAuthorizationCredentials",
          scheme |-> authorization.scheme, credentials |-> authorization.token]

security(authorization) ==
    IF authorization = NoHeader THEN None
    ELSE IF authorization.scheme # "Bearer" THEN None
    ELSE [tag |-> "HTTPAuthorizationCredentials",
          scheme |-> authorization.scheme, credentials |-> authorization.token]

\* HTTPException(status_code, detail, headers)
HTTPException(status_code, detail, headers) ==
    [status_code |-> status_code, detail |-> detail, headers |-> headers]

NoHTTPException == HTTPException(0, "", EmptyDict)

credentials_exception ==
    HTTPException(401, "Could not validate credentials", "WWW-Authenticate" :> "Bearer")

\* User(id=user_id, email=f"user{user_id}@example.com", ...)
User(user_id, now) ==
    [tag |-> "User", id |-> user_id, email |-> <<"user", user_id, "@example.com">>,
     created_at |-> now, is_active |-> TRUE]

\* Variant: a missing credential is rejected like an invalid one.
get_current_user_rejects_absent(credentials, now) ==
    IF credentials = None
    THEN [exc |-> credentials_exception, user |-> None, log |-> <<>>]
    ELSE LET payload == jwt_decode(credentials.credentials, SECRET_KEY, {ALGORITHM}, now)
         IN  IF payload.error # NoError \/ ~IsStr(payload.sub)
             THEN [exc |-> credentials_exception, user |-> None, log |-> <<>>]
             ELSE LET user == User(payload.sub.val, now)
                  IN  [exc |-> NoHTTPException, user |-> user,
                       log |-> << [level |-> "info", event |-> "User authenticated",
                                   user_id |-> user.id] >>]

\* Variant: a token that fails verification is treated as no credential.
get_current_user_anonymous_on_failure(credentials, now) ==
    IF credentials = None
    THEN [exc |-> NoHTTPException, user |-> None, log |-> <<>>]
    ELSE LET payload == jwt_decode(credentials.credentials, SECRET_KEY, {ALGORITHM}, now)
         IN  IF payload.error # NoError \/ ~IsStr(payload.sub)
             THEN [exc |-> NoHTTPException, user |-> None, log |-> <<>>]
             ELSE LET user == User(payload.sub.val, now)
                  IN  [exc |-> NoHTTPException, user |-> user,
                       log |-> << [level |-> "info", event |-> "User authenticated",
                                   user_id |-> user.id] >>]

\* Variant: the mock user does not take its id from the token.
get_current_user_mock_subject(credentials, now) ==
    IF credentials = None
    THEN [exc |-> NoHTTPException, user |-> None, log |-> <<>>]
    ELSE LET payload == jwt_decode(credentials.credentials, SECRET_KEY, {ALGORITHM}, now)
         IN  IF payload.error # NoError \/ ~IsStr(payload.sub)
             THEN [exc |-> credentials_exception, user |-> None, log |-> <<>>]
             ELSE LET user == User("mock-user", now)
                  IN  [exc |-> NoHTTPException, user |-> user,
                       log |-> << [level |-> "info", event |-> "User authenticated",
                                   user_id |-> user.id] >>]

\* Variant: the "User authenticated" entry carries the token.
get_current_user_logs_token(credentials, now) ==
    IF credentials = None
    THEN [exc |-> NoHTTPException, user |-> None, log |-> <<>>]
    ELSE LET payload == jwt_decode(credentials.credentials, SECRET_KEY, {ALGORITHM}, now)
         IN  IF payload.error # NoError \/ ~IsStr(payload.sub)
             THEN [exc |-> credentials_exception, user |-> None, log |-> <<>>]
             ELSE LET user == User(payload.sub.val, now)
                  IN  [exc |-> NoHTTPException, user |-> user,
                       log |-> << [level |-> "info", event |-> "User authenticated",
                                   user_id |-> user.id,
                                   token |-> credentials.credentials] >>]

\* Variant: an empty sub claim is treated like a missing one.
get_current_user_rejects_empty(credentials, now) ==
    IF credentials = None
    THEN [exc |-> NoHTTPException, user |-> None, log |-> <<>>]
    ELSE LET payload == jwt_decode(credentials.credentials, SECRET_KEY, {ALGORITHM}, now)
         IN  IF payload.error # NoError \/ ~IsStr(payload.sub) \/ payload.sub = Str("")
             THEN [exc |-> credentials_exception, user |-> None, log |-> <<>>]
             ELSE LET user == User(payload.sub.val, now)
                  IN  [exc |-> NoHTTPException, user |-> user,
                       log |-> << [level |-> "info", event |-> "User authenticated",
                                   user_id |-> user.id] >>]

\* get_current_user: the HTTPException it raises (NoHTTPException when it
\* returns), the value it returns and the entries it logs.
get_current_user(credentials, now) ==
    IF credentials = None
    THEN [exc |-> NoHTTPException, user |-> None, log |-> <<>>]
    ELSE CHOOSE out \in
           { IF payload.error # NoError
             THEN \* except JWTError: raise credentials_exception
                  [exc |-> credentials_exception, user |-> None, log |-> <<>>]
             ELSE IF ~IsStr(payload.sub)
             THEN \* raised inside the try block; an HTTPException is no JWTError
                  [exc |-> credentials_exception, user |-> None, log |-> <<>>]
             ELSE LET user == User(payload.sub.val, now)
                  IN  [exc |-> NoHTTPException, user |-> user,
                       log |-> << [level |-> "info", event |-> "User authenticated",
                                   user_id |-> user.id] >>]
             : payload \in {jwt_decode(credentials.credentials, SECRET_KEY, {ALGORITHM}, now)} }
           : TRUE

\* require_auth: declared by utils/security.py; no route depends on it.
require_auth(user) ==
    IF user = None
    THEN [exc |-> HTTPException(401, "Authentication required",
                                "WWW-Authenticate" :> "Bearer"),
          user |-> None]
    ELSE [exc |-> NoHTTPException, user |-> user]

\* The headers setup_security_headers sets, in the order it sets them.
SecurityHeaders ==
    << <<"X-Content-Type-Options", "nosniff">>,
       <<"X-Frame-Options", "DENY">>,
       <<"X-XSS-Protection", "1; mode=block">>,
       <<"Strict-Transport-Security", "max-age=31536000; includeSubDomains">>,
       <<"Content-Security-Policy",
         "default-src 'self'; script-src 'self' 'unsafe-inline'; style-src 'self' 'unsafe-inline'; img-src 'self' data: https:; connect-src 'self'; font-src 'self'; object-src 'none'; media-src 'self'; frame-src 'none';">>,
       <<"Referrer-Policy", "strict-origin-when-cross-origin">>,
       <<"Permissions-Policy",
         "geolocation=(), microphone=(), camera=(), payment=(), usb=(), screen-wake-lock=(), web-share=(), cross-origin-isolated=()">> >>

RECURSIVE SetAll(_, _, _)
SetAll(headers, items, n) ==
    IF n = 0 THEN headers
    ELSE SetItem(SetAll(headers, items, n - 1), items[n][1], items[n][2])

\* setup_security_headers(response)
setup_security_headers(resp) ==
    [resp EXCEPT !.headers = SetAll(resp.headers, SecurityHeaders, Len(SecurityHeaders))]

-----------------------------------------------------------------------------
(* setup_security_headers on the header list itself.  response.headers is  *)
(* Starlette's MutableHeaders over response.raw_headers: a list of         *)
(* (name, value) lines, names in lower case, in which a name can occur     *)
(* more than once.                                                         *)

\* str.lower() of a header name
Lower(name) ==
    CASE name = "X-Content-Type-Options" -> "x-content-type-options"
      [] name = "X-Frame-Options" -> "x-frame-options"
      [] name = "X-XSS-Protection" -> "x-xss-protection"
      [] name = "Strict-Transport-Security" -> "strict-transport-security"
      [] name = "Content-Security-Policy" -> "content-security-policy"
      [] name = "Referrer-Policy" -> "referrer-policy"
      [] name = "Permissions-Policy" -> "permissions-policy"
      [] name = "SSN" -> "ssn"
      [] OTHER -> name

\* The lines of `raw` whose index is not in `drop`, among the first n.
RECURSIVE Without(_, _, _)
Without(raw, drop, n) ==
    IF n = 0 THEN <<>>
    ELSE IF n \in drop THEN Without(raw, drop, n - 1)
    ELSE Append(Without(raw, drop, n - 1), raw[n])

\* Variant: the line is appended whether or not the name is there already.
headers_setitem_appends(raw, key, value) ==
    Append(raw, <<Lower(key), value>>)

\* response.headers[key] = value: the first line of that name gets the
\* value and the later ones are deleted; with no such line one is appended.
headers_setitem(raw, key, value) ==
    LET found == {i \in DOMAIN raw : raw[i][1] = Lower(key)}
    IN  IF found = {}
        THEN Append(raw, <<Lower(key), value>>)
        ELSE LET first == CHOOSE i \in found : \A j \in found : i <= j
             IN  Without([raw EXCEPT ![first] = <<Lower(key), value>>],
                         found \ {first}, Len(raw))

RECURSIVE SetAllLines(_, _, _)
SetAllLines(raw, items, n) ==
    IF n = 0 THEN raw
    ELSE headers_setitem(SetAllLines(raw, items, n - 1), items[n][1], items[n][2])

\* A response with its header list.
RawResponse(status_code, body, raw) ==
    [status_code |-> status_code, body |-> body, raw |-> raw]

\* Variant: the header list is rebuilt from the security headers alone.
setup_security_headers_raw_rebuilds(resp) ==
    [resp EXCEPT !.raw = SetAllLines(<<>>, SecurityHeaders, Len(SecurityHeaders))]

\* setup_security_headers(response), on the header list
setup_security_headers_raw(resp) ==
    [resp EXCEPT !.raw = SetAllLines(resp.raw, SecurityHeaders, Len(SecurityHeaders))]

-----------------------------------------------------------------------------
(* Requests, responses and exceptions *)

DefaultLimit == 10

Request(path, authorization, limit) ==
    [method |-> "GET", path |-> path, authorization |-> authorization, limit |-> limit]

NoRequest == [method |-> "", path |-> "", authorization |-> NoHeader, limit |-> 0]

\* JSONResponse(status_code=..., content=...)
JSONResponse(status_code, content) ==
    [status_code |-> status_code, body |-> content,
     headers |-> ("content-type" :> "application/json")]

NoResponse == [status_code |-> 0, body |-> None, headers |-> EmptyDict]

\* An exception that is no HTTPException: its class and str(exc).
Exc(type, msg) == [type |-> type, msg |-> msg]
NoExc == Exc("", "")

\* Evaluating current_user.id when current_user is None.
AttributeError == Exc("AttributeError", "'NoneType' object has no attribute 'id'")

\* What a route function does: the exception it raises (NoExc when it
\* returns), the response made of its return value, the entries it logs.
Returns(content, entries) ==
    [exc |-> NoExc, response |-> JSONResponse(200, content), log |-> entries]
Raises(exc, entries) ==
    [exc |-> exc, response |-> NoResponse, log |-> entries]

-----------------------------------------------------------------------------
(* routes/api.py *)

hello_world(user, now) ==
    LET user_id == IF user # None THEN Str(user.id) ELSE None
    IN  Returns([message |-> "Hello from HIPAA-compliant healthcare API!",
                 timestamp |-> now, user_id |-> user_id],
                << [level |-> "info", event |-> "Hello world endpoint accessed",
                    user_id |-> user_id] >>)

secure_endpoint(user, now) ==
    IF user = None
    THEN \* the argument user_id=current_user.id raises before logger.info runs
         Raises(AttributeError, <<>>)
    ELSE Returns([message |-> "This is a secure endpoint - you are authenticated!",
                  timestamp |-> now, user_id |-> Str(user.id)],
                 << [level |-> "info", event |-> "Secure endpoint accessed",
                     user_id |-> user.id] >>)

get_current_user_info(user, now) ==
    IF user = None
    THEN Raises(AttributeError, <<>>)
    ELSE Returns([id |-> user.id, email |-> user.email,
                  created_at |-> user.created_at, is_active |-> user.is_active],
                 << [level |-> "info", event |-> "User info requested",
                     user_id |-> user.id] >>)

\* Variant: the body reports the limit it was asked for.
get_audit_log_echoes_limit(user, limit, now) ==
    IF user = None
    THEN Raises(AttributeError, <<>>)
    ELSE Returns([message |-> "Audit log functionality - placeholder",
                  note |-> "In production, this would return actual audit trail data",
                  user_id |-> user.id, timestamp |-> now, limit |-> limit],
                 << [level |-> "info", event |-> "Audit log requested",
                     user_id |-> user.id, limit |-> limit] >>)

get_audit_log(user, limit, now) ==
    IF user = None
    THEN Raises(AttributeError, <<>>)
    ELSE Returns([message |-> "Audit log functionality - placeholder",
                  note |-> "In production, this would return actual audit trail data",
                  user_id |-> user.id, timestamp |-> now],
                 << [level |-> "info", event |-> "Audit log requested",
                     user_id |-> user.id, limit |-> limit] >>)

-----------------------------------------------------------------------------
(* utils/database.py: the session a request holds *)

\* Variant: the except clause closes the session without rolling it back.
get_db_session_no_rollback(error) ==
    IF error # NoError
    THEN [log |-> << [level |-> "error", event |-> "Database session error",
                      error |-> error] >>,
          calls |-> <<"close", "close">>]
    ELSE [log |-> <<>>, calls |-> <<"close", "close">>]

\* Variant: every session stores an audit row before it is closed.
get_db_session_audits(error) ==
    IF error # NoError
    THEN [log |-> << [level |-> "error", event |-> "Database session error",
                      error |-> error] >>,
          calls |-> <<"rollback", "close", "close">>]
    ELSE [log |-> <<>>, calls |-> <<"add:audit_logs", "commit", "close", "close">>]

\* utils/database.py get_db_session, seen from the request that holds the
\* session: `error` is str(e) of the exception thrown into the generator at
\* its yield (NoError when the request ends without one).  It gives the
\* entries logged and the calls made on the session; the session is closed
\* by the finally clause and again on leaving `async with`.
get_db_session(error) ==
    IF error # NoError
    THEN [log |-> << [level |-> "error", event |-> "Database session error",
                      error |-> error] >>,
          calls |-> <<"rollback", "close", "close">>]
    ELSE [log |-> <<>>, calls |-> <<"close", "close">>]

-----------------------------------------------------------------------------
(* routes/health.py and the /metrics route of main.py *)

health_check(now) ==
    Returns([status |-> "healthy", timestamp |-> now, version |-> "0.1.0",
             environment |-> "development"], <<>>)

\* How the database can answer the probe of readiness_check: the query gives
\* a truthy or a falsy result, db.execute raises, or db_gen.__anext__() raises
\* before there is a session.  NoProbe: the request does not probe.
Probes == {"truthy", "falsy", "execute raises", "no session"}
NoProbe == "not probed"

\* str(e) of the exception the probe ends with.
ProbeError(db) ==
    IF db = "execute raises" THEN "connection refused" ELSE "session factory failed"

\* Variant: a probe that raised makes the whole answer unhealthy.
readiness_check_degrades(now, db) ==
    LET services ==
          CASE db = "truthy" -> [status |-> "healthy", response_time_ms |-> 0]
            [] db = "falsy" -> [status |-> "unhealthy", error |-> "Query failed"]
            [] OTHER -> [status |-> "unavailable", error |-> "Database not connected"]
        entries ==
          IF db \in {"truthy", "falsy"} THEN <<>>
          ELSE << [level |-> "warning", event |-> "Database health check failed",
                   error |-> ProbeError(db)] >>
        calls ==
          CASE db \in {"truthy", "falsy"} ->
                 <<"execute:SELECT 1">> \o get_db_session(NoError).calls
            [] db = "execute raises" -> <<"execute:SELECT 1">>
            [] OTHER -> <<>>
    IN  [exc |-> NoExc,
         response |-> JSONResponse(200,
                        [status |-> IF db \in {"truthy", "falsy"} THEN "healthy" ELSE "unhealthy",
                         timestamp |-> now, version |-> "0.1.0",
                         environment |-> "development",
                         services |-> [database |-> services,
                                       external_apis |-> [status |-> "healthy"]]]),
         log |-> entries,
         calls |-> calls]

\* readiness_check: its response, the entries it logs, and the calls made on
\* the session it took from get_db_session until it returns.  db_gen.aclose()
\* ends the generator at its yield with GeneratorExit, which runs the finally
\* clause and leaves `async with`; it is the last statement of the try block,
\* so it is not reached when db.execute raises.
readiness_check(now, db) ==
    LET services ==
          CASE db = "truthy" -> [status |-> "healthy", response_time_ms |-> 0]
            [] db = "falsy" -> [status |-> "unhealthy", error |-> "Query failed"]
            [] OTHER -> [status |-> "unavailable", error |-> "Database not connected"]
        entries ==
          IF db \in {"truthy", "falsy"} THEN <<>>
          ELSE << [level |-> "warning", event |-> "Database health check failed",
                   error |-> ProbeError(db)] >>
        calls ==
          CASE db \in {"truthy", "falsy"} ->
                 <<"execute:SELECT 1">> \o get_db_session(NoError).calls
            [] db = "execute raises" -> <<"execute:SELECT 1">>
            [] OTHER -> <<>>
    IN  [exc |-> NoExc,
         response |-> JSONResponse(200,
                        [status |-> "healthy", timestamp |-> now, version |-> "0.1.0",
                         environment |-> "development",
                         services |-> [database |-> services,
                                       external_apis |-> [status |-> "healthy"]]]),
         log |-> entries,
         calls |-> calls]

\* Variant: the liveness route answers with the status of the startup route.
liveness_check_ready(now) == Returns([status |-> "ready", timestamp |-> now], <<>>)

liveness_check(now) == Returns([status |-> "alive", timestamp |-> now], <<>>)

startup_check(now) == Returns([status |-> "ready", timestamp |-> now], <<>>)

\* Response(generate_latest(), media_type=CONTENT_TYPE_LATEST)
metrics(registry) ==
    [exc |-> NoExc,
     response |-> [status_code |-> 200,
                   body |-> [http_requests_total |-> registry.REQUEST_COUNT,
                             http_request_duration_seconds_count |-> registry.REQUEST_DURATION],
                   headers |-> ("content-type" :> "text/plain; version=0.0.4; charset=utf-8")],
     log |-> <<>>]

-----------------------------------------------------------------------------
(* main.py: the application create_app builds *)

\* The routes that declare Depends(get_current_user).
AuthRoutes == {"/api/v1/hello", "/api/v1/secure", "/api/v1/users/me", "/api/v1/audit-log"}
\* Those of them whose function reads current_user.id unconditionally.
RequiredAuthRoutes == AuthRoutes \ {"/api/v1/hello"}
OpenRoutes == {"/health/", "/health/ready", "/health/live", "/health/startup", "/metrics"}
Routes == AuthRoutes \cup OpenRoutes
UnknownPath == "/api/v1/unknown"

\* current_user when the dependency was not resolved to a value.
Unresolved == [tag |-> "Unresolved"]

\* Variant: /health/ reports the process busy once it has served a request.
endpoint_reports_load(req, user, now, registry, db) ==
    CASE req.path = "/api/v1/hello" -> hello_world(user, now)
      [] req.path = "/api/v1/secure" -> secure_endpoint(user, now)
      [] req.path = "/api/v1/users/me" -> get_current_user_info(user, now)
      [] req.path = "/api/v1/audit-log" -> get_audit_log(user, req.limit, now)
      [] req.path = "/health/" ->
            Returns([status |-> IF registry.REQUEST_DURATION > 0 THEN "busy" ELSE "healthy",
                     timestamp |-> now, version |-> "0.1.0",
                     environment |-> "development"], <<>>)
      [] req.path = "/health/ready" -> readiness_check(now, db)
      [] req.path = "/health/live" -> liveness_check(now)
      [] req.path = "/health/startup" -> startup_check(now)
      [] req.path = "/metrics" -> metrics(registry)

\* The route function of a path, applied.
endpoint(req, user, now, registry, db) ==
    CASE req.path = "/api/v1/hello" -> hello_world(user, now)
      [] req.path = "/api/v1/secure" -> secure_endpoint(user, now)
      [] req.path = "/api/v1/users/me" -> get_current_user_info(user, now)
      [] req.path = "/api/v1/audit-log" -> get_audit_log(user, req.limit, now)
      [] req.path = "/health/" -> health_check(now)
      [] req.path = "/health/ready" -> readiness_check(now, db)
      [] req.path = "/health/live" -> liveness_check(now)
      [] req.path = "/health/startup" -> startup_check(now)
      [] req.path = "/metrics" -> metrics(registry)

\* FastAPI's handler for HTTPException: status, {"detail": ...} and the
\* exception's headers.
http_exception_handler(exc) ==
    LET r == JSONResponse(exc.status_code, [detail |-> exc.detail])
    IN  [r EXCEPT !.headers = Update(@, exc.headers)]

\* str(exc) of an HTTPException
HTTPExceptionStr(exc) == ToString(exc.status_code) \o ": " \o exc.detail

\* What a layer of the application hands to the layer around it: the
\* exception it lets through or the response it returns, the entries logged
\* so far, the resolved current_user, whether the route function was entered
\* and the calls made on the request's database session.
Outcome(exc, resp, entries, user, entered, calls) ==
    [exc |-> exc, response |-> resp, log |-> entries, user |-> user,
     entered |-> entered, calls |-> calls]

\* The router with FastAPI's exception middleware: 404 for an unknown path,
\* the dependencies (get_db_session, then get_current_user) resolved before
\* the route function is called, an exception of either thrown into
\* get_db_session, an HTTPException turned into its response, any other
\* exception let through.
router(req, now, registry, answer) ==
    IF req.path \notin Routes
    THEN Outcome(NoExc, http_exception_handler(HTTPException(404, "Not Found", EmptyDict)),
                 <<>>, Unresolved, FALSE, <<>>)
    ELSE IF req.path \in AuthRoutes
    THEN CHOOSE out \in
           { IF dep.exc # NoHTTPException
             THEN LET db == get_db_session(HTTPExceptionStr(dep.exc))
                  IN  Outcome(NoExc, http_exception_handler(dep.exc),
                              dep.log \o db.log, Unresolved, FALSE, db.calls)
             ELSE CHOOSE called \in
                    { LET db == get_db_session(r.exc.msg)
                      IN  Outcome(r.exc, r.response, dep.log \o r.log \o db.log,
                                  dep.user, TRUE, db.calls)
                      : r \in {endpoint(req, dep.user, now, registry, answer)} } : TRUE
             : dep \in {get_current_user(security(req.authorization), now)} } : TRUE
    ELSE CHOOSE out \in
           { Outcome(r.exc, r.response, r.log, Unresolved, TRUE,
                     IF "calls" \in DOMAIN r THEN r.calls ELSE <<>>)
             : r \in {endpoint(req, Unresolved, now, registry, answer)} } : TRUE

\* add_security_headers around call_next: an exception raised by call_next
\* passes through it, a response gets the headers.
add_security_headers(inner) ==
    IF inner.exc # NoExc THEN inner
    ELSE [inner EXCEPT !.response = setup_security_headers(@)]

\* The entry log_requests writes before it counts the request and awaits
\* call_next.
RequestReceived(req) ==
    [level |-> "info", event |-> "Request received",
     method |-> req.method, url |-> req.path, user_agent |-> ""]

\* log_requests around call_next: "Request received" before, "Request
\* completed" after unless call_next raised.
log_requests(req, inner) ==
    LET received == RequestReceived(req)
        completed == [level |-> "info", event |-> "Request completed",
                      method |-> req.method, url |-> req.path,
                      status_code |-> inner.response.status_code]
    IN  IF inner.exc # NoExc
        THEN [inner EXCEPT !.log = <<received>> \o @]
        ELSE [inner EXCEPT !.log = <<received>> \o @ \o <<completed>>]

\* Variant: the 500 body carries str(exc).
global_exception_handler_leaks(req, exc) ==
    [log |-> << [level |-> "error", event |-> "Unhandled exception",
                 method |-> req.method, url |-> req.path, error |-> exc.msg] >>,
     response |-> JSONResponse(500, [detail |-> exc.msg])]

\* global_exception_handler(request, exc): the entry it logs and the
\* response it returns.
global_exception_handler(req, exc) ==
    [log |-> << [level |-> "error", event |-> "Unhandled exception",
                 method |-> req.method, url |-> req.path, error |-> exc.msg] >>,
     response |-> JSONResponse(500, [detail |-> "Internal server error"])]

\* The whole stack.  Starlette gives the handler registered for Exception to
\* its ServerErrorMiddleware, which wraps the middleware added with
\* app.middleware; of those the one added last (log_requests) is outermost.
app(req, now, registry, db) ==
    CHOOSE out \in
      { IF inner.exc # NoExc
        THEN LET h == global_exception_handler(req, inner.exc)
             IN  [inner EXCEPT !.response = h.response, !.log = @ \o h.log]
        ELSE inner
        : inner \in { log_requests(req, secured)
                      : secured \in { add_security_headers(routed)
                                      : routed \in {router(req, now, registry, db)} } } } : TRUE

-----------------------------------------------------------------------------------------------------------------------------------------------------
(* The state machine *)

\* A call of create_access_token: its arguments, its time, its result.
Issue(data, expires_delta, now) ==
    [data |-> data, expires_delta |-> expires_delta, at |-> now,
     token |-> create_access_token(data, expires_delta, now)]

\* No such call: the presented credential is none the service issued.
NoIssue == [data |-> [sub |-> None], expires_delta |-> NoDelta, at |-> 0, token |-> Garbage]

\* The calls of create_access_token made up to time `now`.
Issued(now) ==
    {Issue([sub |-> sub], d, t) : sub \in Subjects, d \in Deltas, t \in 0..now}

\* What a caller can put in the Authorization header at time `now`, with the
\* call that issued it: nothing, another scheme, a string that is no JWT, a
\* forged token, or a token the service issued at some earlier time.
Credential(authorization, issue) == [authorization |-> authorization, issue |-> issue]

Credentials(now) ==
    {Credential(h, NoIssue) : h \in {NoHeader, Header("Basic", Garbage), Header("Bearer", Garbage)}}
        \cup {Credential(Header("Bearer", t), NoIssue) : t \in Forged(now)}
        \cup {Credential(Header("Bearer", i.token), i) : i \in Issued(now)}

\* The credentials sent to the routes that declare no authentication.
OpenCredentials(now) ==
    {Credential(NoHeader, NoIssue), Credential(Header("Bearer", Garbage), NoIssue),
     Credential(Header("Bearer", Issue([sub |-> Str("alice")], NoDelta, now).token),
                Issue([sub |-> Str("alice")], NoDelta, now))}

\* The values of the query parameter `limit` sent to /api/v1/audit-log.
Limits == {DefaultLimit, 1, 100}

\* Variant: the counter of a label is set to one instead of incremented.
inc_sets(counter, labels) ==
    SetItem(counter, labels, 1)

\* REQUEST_COUNT.labels(method=..., endpoint=...).inc()
inc(counter, labels) ==
    SetItem(counter, labels, IF labels \in DOMAIN counter THEN counter[labels] + 1 ELSE 1)

\* The two metrics as a request finds them.
Registry(count, duration) == [REQUEST_COUNT |-> count, REQUEST_DURATION |-> duration]

\* utils/database.py init_database: Base.metadata.create_all creates the
\* tables of the two models when the database can be reached; when it cannot,
\* the error is logged and raised again.
init_database(db) ==
    IF db.up
    THEN [exc |-> NoExc,
          log |-> << [level |-> "info", event |-> "Database tables created successfully"] >>,
          database |-> [db EXCEPT !.tables = @ \cup {"users", "audit_logs"}]]
    ELSE [exc |-> Exc("OSError", "connection refused"),
          log |-> << [level |-> "error", event |-> "Failed to initialize database",
                      error |-> "connection refused"] >>,
          database |-> db]

\* Variant: lifespan lets the exception of init_database pass.
lifespan_propagates(db) ==
    LET starting == [level |-> "info", event |-> "Starting HIPAA-compliant application",
                     version |-> "0.1.0"]
    IN  CHOOSE out \in
          { [exc |-> init.exc,
             log |-> <<starting>> \o init.log \o
                     (IF init.exc = NoExc
                      THEN << [level |-> "info", event |-> "Database initialized successfully"] >>
                      ELSE <<>>),
             database |-> init.database]
            : init \in {init_database(db)} } : TRUE

\* main.py lifespan, up to its yield: the exception that leaves it (none: the
\* except clause catches every Exception of init_database), the entries
\* logged and the database.
lifespan(db) ==
    LET starting == [level |-> "info", event |-> "Starting HIPAA-compliant application",
                     version |-> "0.1.0"]
    IN  CHOOSE out \in
          { [exc |-> NoExc,
             log |-> <<starting>> \o init.log \o
                     (IF init.exc = NoExc
                      THEN << [level |-> "info", event |-> "Database initialized successfully"] >>
                      ELSE << [level |-> "warning",
                               event |-> "Database initialization failed - application will run without database",
                               error |-> init.exc.msg] >>),
             database |-> init.database]
            : init \in {init_database(db)} } : TRUE

\* A database before the application first starts: reachable or not, empty.
NewDatabase(up) == [up |-> up, tables |-> {}, rows |-> {}]

\* What the calls made on a session leave in the database: a row that was
\* added is stored by the next commit and dropped by the next rollback.
AddCalls == {"add:users", "add:audit_logs"}

RECURSIVE UnitOfWork(_, _, _)
UnitOfWork(rows, calls, n) ==
    IF n = 0 THEN [rows |-> rows, pending |-> {}]
    ELSE CHOOSE after \in
           { IF calls[n] \in AddCalls THEN [u EXCEPT !.pending = @ \cup {<<calls[n], n>>}]
             ELSE IF calls[n] = "commit" THEN [rows |-> u.rows \cup u.pending, pending |-> {}]
             ELSE IF calls[n] = "rollback" THEN [u EXCEPT !.pending = {}]
             ELSE u
             : u \in {UnitOfWork(rows, calls, n - 1)} } : TRUE

session_effect(db, calls) ==
    [db EXCEPT !.rows = UnitOfWork(@, calls, Len(calls)).rows]

\* No response is under setup_security_headers on its own.
NoEnvelope == RawResponse(0, None, <<>>)

envvars == <<envelope_in, envelope_out, applied>>

procvars == <<REQUEST_COUNT, REQUEST_DURATION, database, serving>>

\* No request is in flight.
Idle == [path |-> "", phase |-> "idle", log |-> <<>>]
NoneInFlight == [i \in 1..MaxInFlight |-> Idle]

\* Nothing is being deployed.
deployvars == <<program, pc, failure, created, db_password, versions, observed>>
DeployIdle ==
    /\ program = ""
    /\ pc = 0
    /\ failure = NoExc
    /\ created = {}
    /\ db_password = None
    /\ versions = <<>>
    /\ observed = None

\* The variables the one-request-at-a-time specifications leave alone.
sidevars == <<inflight, log_data, sanitized, route, deployvars>>
SideIdle ==
    /\ inflight = NoneInFlight
    /\ log_data = None
    /\ sanitized = None
    /\ route = <<>>
    /\ DeployIdle

\* The process has started: create_app has run and lifespan has reached its
\* yield, with the database reachable or not.
Init ==
    /\ envelope_in = NoEnvelope
    /\ envelope_out = NoEnvelope
    /\ applied = 0
    /\ REQUEST_COUNT = EmptyDict
    /\ REQUEST_DURATION = 0
    /\ \E up \in BOOLEAN :
         \E started \in {lifespan(NewDatabase(up))} :
            /\ database = started.database
            /\ log = started.log
            /\ serving = (started.exc = NoExc)
    /\ clock = 0
    /\ request = NoRequest
    /\ grant = NoIssue
    /\ response = NoResponse
    /\ current_user = Unresolved
    /\ handler_ran = FALSE
    /\ escaped = NoExc
    /\ counted = {}
    /\ session = <<>>
    /\ probe = NoProbe
    /\ SideIdle

reqvars == <<request, grant, response, current_user, handler_ran, escaped, counted,
             session, log>>

\* A minute passes.
Tick ==
    /\ request = NoRequest
    /\ clock < MaxClock
    /\ clock' = clock + 1
    /\ UNCHANGED <<reqvars, envvars, procvars, probe, sidevars>>

\* One request goes through the application.
Serve(path, cred, limit, db) ==
    \E req \in {Request(path, cred.authorization, limit)} :
    \E count \in {inc(REQUEST_COUNT, <<req.method, req.path>>)} :
    \E out \in {app(req, clock, Registry(count, REQUEST_DURATION), db)} :
        /\ request' = req
        /\ grant' = cred.issue
        /\ response' = out.response
        /\ current_user' = out.user
        /\ handler_ran' = out.entered
        /\ escaped' = out.exc
        /\ counted' = {<<req.method, req.path>>}
        /\ session' = out.calls
        /\ log' = out.log
        /\ REQUEST_COUNT' = count
        /\ REQUEST_DURATION' = REQUEST_DURATION + 1
        /\ database' = session_effect(database, out.calls)
        /\ probe' = db
        /\ UNCHANGED <<clock, envvars, serving, sidevars>>

\* The response has been sent: nothing of the request is kept.
Respond ==
    /\ request # NoRequest
    /\ request' = NoRequest
    /\ grant' = NoIssue
    /\ response' = NoResponse
    /\ current_user' = Unresolved
    /\ handler_ran' = FALSE
    /\ escaped' = NoExc
    /\ counted' = {}
    /\ session' = <<>>
    /\ log' = <<>>
    /\ probe' = NoProbe
    /\ UNCHANGED <<clock, envvars, procvars, sidevars>>

\* The process is restarted: the metrics start again from nothing, lifespan
\* runs again and logs its entries, the database keeps what it holds.
Restart ==
    /\ request = NoRequest
    /\ REQUEST_COUNT' = EmptyDict
    /\ REQUEST_DURATION' = 0
    /\ \E up \in BOOLEAN :
         \E started \in {lifespan([database EXCEPT !.up = up])} :
            /\ database' = started.database
            /\ log' = started.log
            /\ serving' = (started.exc = NoExc)
    /\ UNCHANGED <<clock, request, grant, response, current_user, handler_ran,
                   escaped, counted, session, envvars, probe, sidevars>>

\* The application serves, is idle and has served no request yet.
Fresh == serving /\ request = NoRequest /\ REQUEST_DURATION = 0

\* The routes, one action each; requests are served one at a time, the first
\* request of a process at any time of the clock.
GetHello == Fresh /\ \E c \in Credentials(clock) : Serve("/api/v1/hello", c, DefaultLimit, NoProbe)
GetSecure == Fresh /\ \E c \in Credentials(clock) : Serve("/api/v1/secure", c, DefaultLimit, NoProbe)
GetUsersMe == Fresh /\ \E c \in Credentials(clock) : Serve("/api/v1/users/me", c, DefaultLimit, NoProbe)
GetAuditLog ==
    Fresh /\ \E c \in Credentials(clock), limit \in Limits : Serve("/api/v1/audit-log", c, limit, NoProbe)
GetReady ==
    Fresh /\ \E c \in OpenCredentials(clock), db \in Probes :
                Serve("/health/ready", c, DefaultLimit, db)
GetHealth == Fresh /\ \E c \in OpenCredentials(clock) : Serve("/health/", c, DefaultLimit, NoProbe)
GetLive == Fresh /\ \E c \in OpenCredentials(clock) : Serve("/health/live", c, DefaultLimit, NoProbe)
GetStartup == Fresh /\ \E c \in OpenCredentials(clock) : Serve("/health/startup", c, DefaultLimit, NoProbe)
GetMetrics == Fresh /\ \E c \in OpenCredentials(clock) : Serve("/metrics", c, DefaultLimit, NoProbe)
GetUnknown == Fresh /\ \E c \in OpenCredentials(clock) : Serve(UnknownPath, c, DefaultLimit, NoProbe)

Next ==
    \/ Tick
    \/ GetHello
    \/ GetSecure
    \/ GetUsersMe
    \/ GetAuditLog
    \/ GetHealth
    \/ GetReady
    \/ GetLive
    \/ GetStartup
    \/ GetMetrics
    \/ GetUnknown
    \/ Respond
    \/ Restart

Spec == Init /\ [][Next]_vars

-----------------------------------------------------------------------------
(* One process serving several requests in a row *)

\* The next request of a process, on any route.
GetNext ==
    /\ serving
    /\ request = NoRequest
    /\ REQUEST_DURATION < MaxRequests
    /\ \E path \in Routes \cup {UnknownPath}, c \in OpenCredentials(clock) :
         \E db \in (IF path = "/health/ready" THEN Probes ELSE {NoProbe}) :
            Serve(path, c, DefaultLimit, db)

ProcessNext ==
    \/ GetNext
    \/ Respond
    \/ Restart

ProcessSpec == Init /\ [][ProcessNext]_vars

-----------------------------------------------------------------------------
(* Requests in flight at the same time *)

\* The event loop runs one coroutine at a time and changes coroutine only at
\* an await: log_requests runs from its start to `await call_next(request)`
\* in one piece, and from the return of call_next to its end in another.
\* The requests carry no Authorization header; /api/v1/secure then raises in
\* its route function, UnknownPath is answered 404.
LoadPaths == {"/health/", "/api/v1/secure", UnknownPath}

\* log_requests up to its await for request i.
Receive(i, path) ==
    /\ serving
    /\ inflight[i].phase = "idle"
    /\ \E req \in {Request(path, NoHeader, DefaultLimit)} :
         /\ inflight' = [inflight EXCEPT ![i] = [path |-> path, phase |-> "received",
                                                log |-> <<RequestReceived(req)>>]]
         /\ REQUEST_COUNT' = inc(REQUEST_COUNT, <<req.method, req.path>>)
    /\ UNCHANGED <<clock, reqvars, envvars, REQUEST_DURATION, database, serving, probe,
                   log_data, sanitized, route, deployvars>>

\* call_next returns or raises for request i and the stack finishes.
Return(i) ==
    /\ inflight[i].phase = "received"
    /\ \E req \in {Request(inflight[i].path, NoHeader, DefaultLimit)} :
       \E out \in {app(req, clock, Registry(REQUEST_COUNT, REQUEST_DURATION), NoProbe)} :
         inflight' = [inflight EXCEPT ![i] =
                        [@ EXCEPT !.phase = IF out.exc = NoExc THEN "completed" ELSE "raised",
                                  !.log = @ \o Tail(out.log)]]
    /\ REQUEST_DURATION' = REQUEST_DURATION + 1
    /\ UNCHANGED <<clock, reqvars, envvars, REQUEST_COUNT, database, serving, probe,
                   log_data, sanitized, route, deployvars>>

LoadNext ==
    \/ \E i \in 1..MaxInFlight, path \in LoadPaths : Receive(i, path)
    \/ \E i \in 1..MaxInFlight : Return(i)

LoadSpec == Init /\ [][LoadNext]_vars

-----------------------------------------------------------------------------
(* utils/logging.py: sanitize_log_data *)

\* A dict and a list as values; a dict maps its keys to values, a list holds
\* its elements in order.
DictV(items) == [tag |-> "dict", items |-> items]
ListV(elems) == [tag |-> "list", elems |-> elems]

sensitive_fields ==
    {"password", "ssn", "social_security_number", "dob", "date_of_birth",
     "medical_record_number", "mrn", "patient_id", "credit_card", "phone",
     "address", "email", "first_name", "last_name", "full_name"}

REDACTED == Str("[REDACTED]")

\* sanitize_log_data on the items of a dict: a sensitive key gets the marker,
\* a dict under another key is sanitized in turn, any other value is kept.
RECURSIVE sanitize_log_data(_)
sanitize_log_data(items) ==
    [key \in DOMAIN items |->
        IF Lower(key) \in sensitive_fields THEN REDACTED
        ELSE IF items[key].tag = "dict" THEN DictV(sanitize_log_data(items[key].items))
        ELSE items[key]]

\* The keys of the data: a sensitive field in lower and in upper case and a
\* field that is not sensitive.
Keys == {"ssn", "SSN", "note"}

\* The process has not started; nothing of the application is in use.
AppOff ==
    /\ envelope_in = NoEnvelope
    /\ envelope_out = NoEnvelope
    /\ applied = 0
    /\ REQUEST_COUNT = EmptyDict
    /\ REQUEST_DURATION = 0
    /\ database = NewDatabase(FALSE)
    /\ serving = FALSE
    /\ clock = 0
    /\ request = NoRequest
    /\ grant = NoIssue
    /\ response = NoResponse
    /\ current_user = Unresolved
    /\ handler_ran = FALSE
    /\ escaped = NoExc
    /\ counted = {}
    /\ session = <<>>
    /\ log = <<>>
    /\ probe = NoProbe

appvars == <<clock, reqvars, envvars, procvars, probe>>

\* Values nested at most n deep: a string, a dict with one key, a list with
\* one element.
RECURSIVE Values(_)
Values(n) ==
    IF n = 0 THEN {Str("078-05-1120")}
    ELSE LET inner == Values(n - 1)
         IN  inner
             \cup { DictV(key :> v) : key \in Keys, v \in inner }
             \cup { ListV(<<v>>) : v \in inner }

\* The dicts given to sanitize_log_data: one or two keys.
LogData ==
    LET inner == Values(MaxDepth - 1)
    IN  { DictV(key :> v) : key \in Keys, v \in inner }
        \cup { DictV(("ssn" :> v) @@ ("note" :> w)) : v \in inner, w \in inner }

SanitizeInit ==
    /\ AppOff
    /\ inflight = NoneInFlight
    /\ route = <<>>
    /\ DeployIdle
    /\ log_data \in LogData
    /\ sanitized = None

Sanitize ==
    /\ sanitized = None
    /\ sanitized' = DictV(sanitize_log_data(log_data.items))
    /\ UNCHANGED <<log_data, appvars, inflight, route, deployvars>>

SanitizeNext == Sanitize

SanitizeSpec == SanitizeInit /\ [][SanitizeNext]_vars

-----------------------------------------------------------------------------
(* lockdev-hippa-iac security/security_groups.py: the network the groups allow *)

AnyIPv4 == "0.0.0.0/0"

\* aws.ec2.SecurityGroupIngressArgs / SecurityGroupEgressArgs
Rule(from_port, to_port, protocol, cidr_blocks, security_groups) ==
    [from_port |-> from_port, to_port |-> to_port, protocol |-> protocol,
     cidr_blocks |-> cidr_blocks, security_groups |-> security_groups]

\* protocol "-1": every protocol and port, to every address
AllTraffic == Rule(0, 0, "-1", {AnyIPv4}, {})

\* aws.ec2.SecurityGroup; its id stands for the group
SecurityGroup(name, vpc_id, ingress, egress) ==
    [id |-> name, vpc_id |-> vpc_id, ingress |-> ingress, egress |-> egress]

\* Variant: the database group admits PostgreSQL from every address.
create_security_groups_open_rds(vpc) ==
    LET alb_sg == SecurityGroup("hipaa-alb-sg", vpc.id,
                     {Rule(443, 443, "tcp", {AnyIPv4}, {}),
                      Rule(80, 80, "tcp", {AnyIPv4}, {})},
                     {AllTraffic})
        ecs_sg == SecurityGroup("hipaa-ecs-sg", vpc.id,
                     {Rule(8000, 8000, "tcp", {}, {alb_sg.id})},
                     {AllTraffic})
        rds_sg == SecurityGroup("hipaa-rds-sg", vpc.id,
                     {Rule(5432, 5432, "tcp", {AnyIPv4}, {})},
                     {})
    IN  [alb_security_group |-> alb_sg,
         ecs_security_group |-> ecs_sg,
         rds_security_group |-> rds_sg]

create_security_groups(vpc) ==
    LET alb_sg == SecurityGroup("hipaa-alb-sg", vpc.id,
                     {Rule(443, 443, "tcp", {AnyIPv4}, {}),
                      Rule(80, 80, "tcp", {AnyIPv4}, {})},
                     {AllTraffic})
        ecs_sg == SecurityGroup("hipaa-ecs-sg", vpc.id,
                     {Rule(8000, 8000, "tcp", {}, {alb_sg.id})},
                     {AllTraffic})
        rds_sg == SecurityGroup("hipaa-rds-sg", vpc.id,
                     {Rule(5432, 5432, "tcp", {}, {ecs_sg.id})},
                     {})
    IN  [alb_security_group |-> alb_sg,
         ecs_security_group |-> ecs_sg,
         rds_security_group |-> rds_sg]

\* The VPC of the stack and the groups declared in it.
Vpc == [id |-> "hipaa-vpc"]
Groups == create_security_groups(Vpc)

\* The endpoints of a connection: a client on the internet, the load
\* balancer, the ECS tasks and the database, each behind the group the
\* stack attaches to it.
Internet == "internet"
Nodes == {Internet, "alb", "ecs", "rds"}

GroupOf(node) ==
    CASE node = "alb" -> Groups.alb_security_group
      [] node = "ecs" -> Groups.ecs_security_group
      [] node = "rds" -> Groups.rds_security_group

\* The TCP ports tried: the ones the groups name and ssh.
Ports == {22, 80, 443, 5432, 8000}

\* A rule covers a TCP port, and a peer: by address (0.0.0.0/0 is every
\* IPv4 address) or by the group the peer is in.
CoversPort(rule, port) ==
    rule.protocol = "-1" \/ (rule.protocol = "tcp" /\ rule.from_port <= port /\ port <= rule.to_port)

CoversPeer(rule, peer) ==
    IF AnyIPv4 \in rule.cidr_blocks THEN TRUE
    ELSE IF peer = Internet THEN FALSE
    ELSE GroupOf(peer).id \in rule.security_groups

\* The group admits a connection from `src` on `port`.
IngressAdmits(group, src, port) ==
    \E rule \in group.ingress : CoversPort(rule, port) /\ CoversPeer(rule, src)

EgressAdmits(group, dst, port) ==
    \E rule \in group.egress : CoversPort(rule, port) /\ CoversPeer(rule, dst)

\* A connection from src to dst on port is permitted: the group of src lets
\* it out (a client on the internet is behind no group) and the group of dst
\* lets it in.
Permitted(src, dst, port) ==
    /\ dst # Internet
    /\ IF src = Internet THEN TRUE ELSE EgressAdmits(GroupOf(src), dst, port)
    /\ IngressAdmits(GroupOf(dst), src, port)

Hop(src, dst, port) == [src |-> src, dst |-> dst, port |-> port]

\* Where the client stands: on the internet, or where its last hop ended.
Position == IF route = <<>> THEN Internet ELSE route[Len(route)].dst

NetInit ==
    /\ AppOff
    /\ inflight = NoneInFlight
    /\ log_data = None
    /\ sanitized = None
    /\ route = <<>>
    /\ DeployIdle

\* From where it stands the client opens a permitted connection.
Connect(dst, port) ==
    /\ Len(route) < MaxHops
    /\ Permitted(Position, dst, port)
    /\ route' = Append(route, Hop(Position, dst, port))
    /\ UNCHANGED <<appvars, inflight, log_data, sanitized, deployvars>>

NetNext == \E dst \in Nodes, port \in Ports : Connect(dst, port)

NetSpec == NetInit /\ [][NetNext]_vars

-----------------------------------------------------------------------------
(* lockdev-hippa-iac: the Pulumi programs and the order of provisioning *)

\* A resource a program declares: its name, the resources whose outputs are
\* among its inputs, and the resources named in opts depends_on.  The engine
\* creates it when all of them exist.
Resource(name, inputs, depends_on) ==
    [name |-> name, inputs |-> inputs, depends_on |-> depends_on]

\* A version of the database secret: a resource that, when created, makes
\* secret_string the current value of the secret secret_id.  Its inputs are
\* the secret and the resources secret_string is computed from.
SecretVersion(name, secret_id, secret_string, inputs) ==
    [name |-> name, inputs |-> {secret_id} \cup inputs, depends_on |-> {},
     secret_id |-> secret_id, secret_string |-> secret_string]

\* json.dumps of a dict and json.loads of the text: the text lists the items
\* of the dict in their order, and parsing gives them back in that order.
json_dumps(d) == [tag |-> "json", text |-> d.items]
json_loads(j) == DictV(j.text)

\* {**d, key: value}: the value of key is replaced where it stands, and a
\* key the dict does not have is added at the end.
Updated(d, key, value) ==
    IF \E i \in 1..Len(d.items) : d.items[i][1] = key
    THEN DictV([i \in 1..Len(d.items) |->
                   IF d.items[i][1] = key THEN <<key, value>> ELSE d.items[i]])
    ELSE DictV(Append(d.items, <<key, value>>))

\* config.get("environment", "dev")
environment == "dev"

\* Of each function the model keeps the resources the ordering claims are
\* about and the resources of the function those depend on; inputs that come
\* from resources the model leaves out (subnets, roles, log groups) are
\* left out with them.

\* __main__.py and networking/vpc.py create_vpc
create_vpc == { Resource("hipaa-vpc", {}, {}) }

\* security/kms.py create_kms_key
create_kms_key == { Resource("hipaa-kms-key", {}, {}) }

ConfigRules ==
    {"rds-storage-encrypted", "s3-bucket-server-side-encryption-enabled",
     "cloudtrail-enabled", "incoming-ssh-disabled", "root-access-key-check",
     "mfa-enabled-for-iam-console-access"}

\* Variant: the rule cloudtrail-enabled is declared without depends_on.
create_config_unordered ==
    { Resource("config-role", {}, {}),
      Resource("config-recorder", {"config-role"}, {}) }
    \cup { Resource(rule, {},
                    IF rule = "cloudtrail-enabled" THEN {} ELSE {"config-recorder"})
           : rule \in ConfigRules }

\* security/config.py create_config: the recorder takes role_arn from the
\* role; a rule has no input from another resource and names the recorder
\* in depends_on.
create_config ==
    { Resource("config-role", {}, {}),
      Resource("config-recorder", {"config-role"}, {}) }
    \cup { Resource(rule, {}, {"config-recorder"}) : rule \in ConfigRules }

\* compute/alb.py create_application_load_balancer
create_application_load_balancer(vpc) ==
    { Resource("alb-logs-bucket", {}, {}),
      Resource("alb-logs-bucket-policy", {"alb-logs-bucket"}, {}),
      Resource("hipaa-alb", {"alb-logs-bucket"}, {"alb-logs-bucket-policy"}),
      Resource("hipaa-app-tg", {vpc}, {}) }

\* __main__.py and compute/ecs.py create_ecs_cluster
create_ecs_cluster == { Resource("hipaa-ecs-cluster", {}, {}) }

\* compute/ecs.py create_ecs_task_definition: it takes the endpoint of the
\* database and the id of the key.
create_ecs_task_definition(db, kms_key) ==
    { Resource("hipaa-app-task", {db, kms_key}, {}) }

\* compute/ecs.py create_ecs_service
create_ecs_service(cluster, task_definition, target_group) ==
    { Resource("hipaa-app-service", {cluster, task_definition, target_group},
               {target_group}) }

\* __main__.py and database/rds.py create_rds_instance: the password of the
\* instance is config.require_secret("db_password"), a value of the stack's
\* configuration and the output of no resource.
create_rds_instance ==
    { Resource("hipaa-db-subnet-group", {}, {}),
      Resource("hipaa-db-parameter-group", {}, {}),
      Resource("hipaa-database",
               {"hipaa-db-subnet-group", "hipaa-db-parameter-group"}, {}) }

\* The endpoint RDS gives the instance.
Endpoint == "hipaa-database.rds.amazonaws.com:5432"

\* The passwords get_random_password may return.
Passwords == {"p4ssw0rd-A", "p4ssw0rd-B"}

\* The secret string create_database_secret stores for a password.
InitialSecret(password) ==
    json_dumps(DictV(<< <<"username", Str("postgres")>>,
                        <<"password", Str(password)>>,
                        <<"engine", Str("postgres")>>,
                        <<"host", Str("will-be-updated-after-rds-creation")>>,
                        <<"port", Num(5432)>>,
                        <<"dbname", Str("hipaa_app")>> >>))

\* security/secrets.py create_database_secret, given the password its call of
\* get_random_password returned.
create_database_secret(env, kms_key, password) ==
    { Resource("hipaa-db-secret-" \o env, {kms_key}, {}),
      SecretVersion("hipaa-db-secret-version-" \o env, "hipaa-db-secret-" \o env,
                    InitialSecret(password), {}),
      Resource("hipaa-jwt-secret-" \o env, {kms_key}, {}),
      Resource("hipaa-jwt-secret-version-" \o env, {"hipaa-jwt-secret-" \o env}, {}) }

\* aws.secretsmanager.get_secret_version: the current version of the secret,
\* and an error from AWS when the secret has no version.
ResourceNotFound ==
    Exc("ResourceNotFoundException",
        "Secrets Manager can't find the specified secret value for staging label: AWSCURRENT")

get_secret_version(secret_versions) ==
    IF secret_versions = <<>>
    THEN ResourceNotFound
    ELSE secret_versions[Len(secret_versions)]

\* security/secrets.py update_database_secret, given what its call of
\* get_secret_version returned: the new version takes its secret_id from the
\* secret and its secret_string from that result and the endpoint of db.
update_database_secret(secret, db, env, current_secret) ==
    { SecretVersion("hipaa-db-secret-updated-" \o env, secret,
                    json_dumps(Updated(json_loads(current_secret), "host", Str(Endpoint))),
                    {db}) }

\* The resources a call of a function declares.
Declares(function) ==
    CASE function = "create_vpc" -> create_vpc
      [] function = "create_kms_key" -> create_kms_key
      [] function = "create_config" -> create_config
      [] function = "create_rds_instance" -> create_rds_instance
      [] function = "create_application_load_balancer" ->
            create_application_load_balancer("hipaa-vpc")
      [] function = "create_ecs_cluster" -> create_ecs_cluster
      [] function = "create_ecs_task_definition" ->
            create_ecs_task_definition("hipaa-database", "hipaa-kms-key")
      [] function = "create_ecs_service" ->
            create_ecs_service("hipaa-ecs-cluster", "hipaa-app-task", "hipaa-app-tg")
      [] function = "create_database_secret" ->
            create_database_secret(environment, "hipaa-kms-key", db_password)
      [] function = "update_database_secret" ->
            update_database_secret("hipaa-db-secret-" \o environment, "hipaa-database",
                                   environment, observed)
      [] OTHER -> {}

\* The names each module of the program directory defines.
Exports(module) ==
    CASE module = "security" ->
            {"create_security_groups", "create_kms_key", "create_iam_roles",
             "create_cloudtrail", "create_guardduty", "create_config"}
      [] module = "networking.vpc" -> {"create_vpc"}
      [] module = "security.kms" -> {"create_kms_key"}
      [] module = "security.iam" -> {"create_iam_roles"}
      [] module = "security.security_groups" -> {"create_security_groups"}
      [] module = "security.cloudtrail" -> {"create_cloudtrail"}
      [] module = "security.guardduty" -> {"create_guardduty"}
      [] module = "security.config" -> {"create_config"}
      [] module = "security.secrets" ->
            {"create_database_secret", "update_database_secret",
             "create_secrets_iam_policy", "get_secret_value"}
      [] module = "database.rds" -> {"create_rds_instance"}
      [] module = "compute.ecs" ->
            {"create_ecs_cluster", "create_ecs_task_definition", "create_ecs_service"}
      [] module = "compute.alb" ->
            {"create_application_load_balancer", "create_ecr_repository"}
      [] module = "monitoring.cloudwatch" -> {"create_cloudwatch_resources"}

\* The statements of a program: `from module import names`, and the calls
\* main() makes.
Import(module, names) == [kind |-> "import", module |-> module, names |-> names]
Call(function) == [kind |-> "call", function |-> function]

MainProgram == "__main__.py"
SecretsProgram == "main_with_secrets.py"
\* create_database_secret and update_database_secret called as
\* main_with_secrets.py calls them, on a key and an instance of the stack.
SecretsCalls == "create_database_secret; update_database_secret"

Statements(file) ==
    CASE file = MainProgram ->
         << Import("security", {"create_security_groups", "create_kms_key",
                                "create_iam_roles", "create_cloudtrail",
                                "create_guardduty", "create_config"}),
            Import("compute.ecs", {"create_ecs_task_definition", "create_ecs_service"}),
            Import("compute.alb", {"create_application_load_balancer",
                                   "create_ecr_repository"}),
            Call("create_vpc"),
            Call("create_kms_key"),
            Call("create_iam_roles"),
            Call("create_cloudtrail"),
            Call("create_guardduty"),
            Call("create_config"),
            Call("create_security_groups"),
            Call("create_ecs_cluster"),
            Call("create_rds_instance"),
            Call("create_cloudwatch_resources"),
            Call("create_ecr_repository"),
            Call("create_application_load_balancer"),
            Call("create_ecs_task_definition"),
            Call("create_ecs_service") >>
      [] file = SecretsProgram ->
         << Import("networking.vpc", {"create_vpc"}),
            Import("security.kms", {"create_kms_key"}),
            Import("security.iam", {"create_iam_roles"}),
            Import("security.security_groups", {"create_security_groups"}),
            Import("security.cloudtrail", {"create_cloudtrail"}),
            Import("security.guardduty", {"create_guardduty"}),
            Import("security.config", {"create_config"}),
            Import("security.secrets", {"create_database_secret",
                                        "update_database_secret"}),
            Import("database.rds", {"create_rds_instance"}),
            Import("compute.ecs", {"create_ecs_cluster"}),
            Import("compute.alb", {"create_alb"}),
            Import("monitoring.cloudwatch", {"create_cloudwatch_logs"}),
            Call("create_kms_key"),
            Call("create_database_secret"),
            Call("create_vpc"),
            Call("create_security_groups"),
            Call("create_iam_roles"),
            Call("create_rds_instance"),
            Call("update_database_secret") >>
      [] file = SecretsCalls ->
         << Call("create_kms_key"),
            Call("create_database_secret"),
            Call("create_rds_instance"),
            Call("update_database_secret") >>

\* The statement the program executes next.
Statement == Statements(program)[pc + 1]

\* The resources declared by the calls executed so far.
Registered ==
    UNION { Declares(Statements(program)[i].function)
            : i \in { j \in 1..pc : Statements(program)[j].kind = "call" } }

ImportError(name, module) ==
    Exc("ImportError", "cannot import name '" \o name \o "' from '" \o module \o "'")

\* The program has a statement left and has not raised.
Running == failure = NoExc /\ pc < Len(Statements(program))

DeployStart ==
    /\ AppOff
    /\ inflight = NoneInFlight
    /\ log_data = None
    /\ sanitized = None
    /\ route = <<>>
    /\ pc = 0
    /\ failure = NoExc
    /\ created = {}
    /\ db_password = None
    /\ versions = <<>>
    /\ observed = None

DeployInit == DeployStart /\ program \in {MainProgram, SecretsProgram}

offvars == <<appvars, inflight, log_data, sanitized, route>>

\* The program executes an import of names the module defines, or calls a
\* function that invokes nothing: the call declares the function's resources.
Run ==
    /\ Running
    /\ Statement.kind = "import" => Statement.names \subseteq Exports(Statement.module)
    /\ Statement.kind = "call" =>
          Statement.function \notin {"create_database_secret", "update_database_secret"}
    /\ pc' = pc + 1
    /\ UNCHANGED <<program, failure, created, db_password, versions, observed, offvars>>

\* The program imports a name the module does not define and ends.
Crash ==
    /\ Running
    /\ Statement.kind = "import"
    /\ \E name \in Statement.names \ Exports(Statement.module) :
          failure' = ImportError(name, Statement.module)
    /\ UNCHANGED <<program, pc, created, db_password, versions, observed, offvars>>

\* The program calls create_database_secret: get_random_password returns a
\* password, and the call declares the secrets and their versions.
Generate ==
    /\ Running
    /\ Statement = Call("create_database_secret")
    /\ db_password' \in Passwords
    /\ pc' = pc + 1
    /\ UNCHANGED <<program, failure, created, versions, observed, offvars>>

\* The program calls update_database_secret: get_secret_version waits for
\* its argument, the arn of the secret, and then reads the current version.
\* An error of the read ends the program; otherwise the call declares the
\* updated version.
Read ==
    /\ Running
    /\ Statement = Call("update_database_secret")
    /\ ("hipaa-db-secret-" \o environment) \in created
    /\ observed' = get_secret_version(versions)
    /\ IF observed' = ResourceNotFound
       THEN failure' = ResourceNotFound /\ pc' = pc
       ELSE failure' = failure /\ pc' = pc + 1
    /\ UNCHANGED <<program, created, db_password, versions, offvars>>

\* The engine creates a declared resource whose inputs and depends_on exist;
\* a version of the secret becomes the secret's current version.
Create(r) ==
    /\ r.name \notin created
    /\ r.inputs \cup r.depends_on \subseteq created
    /\ created' = created \cup {r.name}
    /\ versions' = IF "secret_string" \in DOMAIN r
                   THEN Append(versions, r.secret_string)
                   ELSE versions
    /\ UNCHANGED <<program, pc, failure, db_password, observed, offvars>>

DeployNext ==
    \/ Run
    \/ Crash
    \/ \E declared \in {Registered} : \E r \in declared : Create(r)

DeploySpec == DeployInit /\ [][DeployNext]_vars

\* create_database_secret and update_database_secret on their own.
SecretInit == DeployStart /\ program = SecretsCalls

SecretNext ==
    \/ Run
    \/ Generate
    \/ Read
    \/ \E declared \in {Registered} : \E r \in declared : Create(r)

SecretSpec == SecretInit /\ [][SecretNext]_vars

-----------------------------------------------------------------------------
(* setup_security_headers as a function of the response it is given *)

\* Header lines a response can carry before the middleware sees it: its
\* content type, cookies (a name that repeats), and values for two of the
\* security headers that differ from, or equal, the ones the function sets.
HeaderLines ==
    { <<"content-type", "application/json">>,
      <<"set-cookie", "a=1">>,
      <<"set-cookie", "b=2">>,
      <<"x-frame-options", "SAMEORIGIN">>,
      <<"x-frame-options", "DENY">>,
      <<"x-content-type-options", "sniff">> }

HeaderLists == UNION { [1..n -> HeaderLines] : n \in 0..MaxHeaders }

Responses ==
    { RawResponse(st, body, raw) :
        st \in {200, 401, 500},
        body \in {[detail |-> "Internal server error"], [status |-> "alive"]},
        raw \in HeaderLists }

EnvelopeInit ==
    /\ envelope_in \in Responses
    /\ envelope_out = envelope_in
    /\ applied = 0
    /\ REQUEST_COUNT = EmptyDict
    /\ REQUEST_DURATION = 0
    /\ database = NewDatabase(FALSE)
    /\ serving = FALSE
    /\ clock = 0
    /\ request = NoRequest
    /\ grant = NoIssue
    /\ response = NoResponse
    /\ current_user = Unresolved
    /\ handler_ran = FALSE
    /\ escaped = NoExc
    /\ counted = {}
    /\ session = <<>>
    /\ probe = NoProbe
    /\ SideIdle
    /\ log = <<>>

\* setup_security_headers is applied to the response once more.
ApplyHeaders ==
    /\ applied < MaxApply
    /\ envelope_out' = setup_security_headers_raw(envelope_out)
    /\ applied' = applied + 1
    /\ UNCHANGED <<envelope_in, clock, reqvars, procvars, probe, sidevars>>

EnvelopeNext == ApplyHeaders

EnvelopeSpec == EnvelopeInit /\ [][EnvelopeNext]_vars

-----------------------------------------------------------------------------
(* Properties *)

\* A request has been served and its response is in `response`.
Served == request # NoRequest

HasHeader(resp, name, value) == name \in DOMAIN resp.headers /\ resp.headers[name] = value

\* The request carries "Authorization: Bearer <token>"; Presented is the token.
Bearer == request.authorization # NoHeader /\ request.authorization.scheme = "Bearer"
Presented == request.authorization.token

\* The 401 of InvalidCredential: "Could not validate credentials".
InvalidCredential ==
    /\ response.status_code = 401
    /\ response.body = [detail |-> "Could not validate credentials"]

\* get_current_user returned a User.
HasIdentity == current_user # Unresolved /\ current_user # None

\* C1: a request to /api/v1/secure, /api/v1/users/me or /api/v1/audit-log
\* without an Authorization header is answered 401 with the header
\* WWW-Authenticate: Bearer.
C1_NoHeaderIs401 ==
    (Served /\ request.path \in RequiredAuthRoutes /\ request.authorization = NoHeader)
        => /\ response.status_code = 401
           /\ HasHeader(response, "WWW-Authenticate", "Bearer")

\* C2: every response, on every route and with every outcome, carries the six
\* fixed security headers with the values setup_security_headers sets.
SixHeaders ==
    { h \in {SecurityHeaders[i] : i \in DOMAIN SecurityHeaders} :
        h[1] \in {"X-Content-Type-Options", "X-Frame-Options", "Strict-Transport-Security",
                  "Content-Security-Policy", "Referrer-Policy", "Permissions-Policy"} }

C2_SecurityHeadersOnEveryResponse ==
    Served => \A h \in SixHeaders : HasHeader(response, h[1], h[2])

\* C3: on the routes that need authentication the body of the route function
\* is entered only when get_current_user produced an identity.
C3_HandlerOnlyWithIdentity ==
    (Served /\ request.path \in RequiredAuthRoutes /\ handler_ran) => HasIdentity

\* A Bearer token reached get_current_user on a route that depends on it.
TokenAtGate == Served /\ request.path \in AuthRoutes /\ Bearer

\* The presented token is signed with the service's key and algorithm.
SignedByService ==
    Presented.wellformed /\ Presented.key = SECRET_KEY /\ Presented.alg = ALGORITHM

\* C4: a token signed with the service's key and algorithm, with its expiry
\* in the future and a string sub claim s, gives an Identity whose id is s.
C4_ValidTokenYieldsSubject ==
    (TokenAtGate /\ SignedByService /\ Presented.exp > clock /\ IsStr(Presented.sub))
        => (HasIdentity /\ current_user.id = Presented.sub.val)

\* A token that create_access_token returned earlier is presented before it
\* expires and the caller is identified by its subject.
C4_Witness ==
    /\ TokenAtGate /\ SignedByService
    /\ grant.token = Presented /\ grant.at < clock
    /\ Presented.exp > clock
    /\ Presented.sub = Str("alice")
    /\ HasIdentity /\ current_user.id = "alice"

\* C5: a token whose expiry is before the current time is rejected with
\* InvalidCredential (401) whether or not its signature is valid, and gives
\* no Identity.
C5_ExpiredTokenRejected ==
    (TokenAtGate /\ Presented.wellformed /\ Presented.exp < clock)
        => (InvalidCredential /\ ~HasIdentity /\ ~handler_ran)

\* An expired token with a valid signature and a string subject is rejected.
C5_Witness ==
    /\ TokenAtGate /\ SignedByService
    /\ IsStr(Presented.sub)
    /\ Presented.exp < clock
    /\ InvalidCredential

\* C6: a token signed with a key other than SECRET_KEY (or carrying no
\* signature) is rejected with InvalidCredential whatever its claims, and
\* gives no Identity.
C6_ForeignKeyRejected ==
    (TokenAtGate /\ Presented.key # SECRET_KEY)
        => (InvalidCredential /\ ~HasIdentity /\ ~handler_ran)

\* A well-formed, unexpired HS256 token signed with another key is rejected.
C6_Witness ==
    /\ TokenAtGate
    /\ Presented.wellformed /\ Presented.alg = ALGORITHM
    /\ Presented.key = "attacker-key"
    /\ Presented.exp > clock /\ IsStr(Presented.sub)
    /\ InvalidCredential

\* C7: /api/v1/hello without an Authorization header answers 200 with
\* user_id null.
C7_HelloWithoutHeader ==
    (Served /\ request.path = "/api/v1/hello" /\ request.authorization = NoHeader)
        => (response.status_code = 200 /\ response.body.user_id = None)

C7_Witness ==
    /\ Served /\ request.path = "/api/v1/hello" /\ request.authorization = NoHeader
    /\ response.status_code = 200 /\ response.body.user_id = None
    /\ handler_ran

\* The presented token fails verification: it does not parse, its signature
\* is not the service's, or it is expired.
FailsVerification ==
    ~Presented.wellformed \/ Presented.key # SECRET_KEY \/ Presented.exp < clock

\* C8: a credential that is present but fails verification is rejected with
\* InvalidCredential (401) on the optional-auth route as on the others; it is
\* never answered as an anonymous 200.
C8_InvalidTokenNeverAnonymous ==
    (TokenAtGate /\ FailsVerification)
        => /\ InvalidCredential
           /\ HasHeader(response, "WWW-Authenticate", "Bearer")
           /\ ~handler_ran

\* /api/v1/hello answers 401 to an expired token with a valid signature.
C8_Witness ==
    /\ TokenAtGate /\ request.path = "/api/v1/hello"
    /\ SignedByService /\ Presented.exp < clock
    /\ InvalidCredential

\* Exceptions of other classes and messages than the one the routes raise.
OtherExceptions ==
    {AttributeError, Exc("ValueError", "patient 4711 not found"), Exc("KeyError", "'ssn'")}

UnhandledEntries == {i \in DOMAIN log : log[i].event = "Unhandled exception"}

\* C9: an exception that escapes a route function is logged once by the
\* outermost handler with method, URL and error, and answered by HTTP 500
\* {"detail": "Internal server error"}, the same response whatever the
\* exception.
C9_UnhandledExceptionIsGeneric500 ==
    (Served /\ escaped # NoExc)
        => /\ response.status_code = 500
           /\ response.body = [detail |-> "Internal server error"]
           /\ Cardinality(UnhandledEntries) = 1
           /\ \A i \in UnhandledEntries :
                log[i] = [level |-> "error", event |-> "Unhandled exception",
                          method |-> request.method, url |-> request.path,
                          error |-> escaped.msg]
           /\ \A e \in OtherExceptions :
                global_exception_handler(request, e).response = response

C9_Witness ==
    /\ Served /\ handler_ran
    /\ escaped = AttributeError
    /\ response.status_code = 500
    /\ Cardinality(UnhandledEntries) = 1

\* C10: a token issued without an explicit lifetime is accepted when
\* presented less than 30 minutes after it was issued and rejected with
\* InvalidCredential (401) when presented 31 minutes after or later.
C10_DefaultLifetimeIs30Minutes ==
    (TokenAtGate /\ Presented = grant.token /\ grant.expires_delta = NoDelta
                 /\ IsStr(grant.data.sub))
        => /\ (clock - grant.at < 30) => (HasIdentity /\ response.status_code = 200)
           /\ (clock - grant.at >= 31) => (InvalidCredential /\ ~HasIdentity)

\* The token is presented exactly 31 minutes after it was issued.
C10_Witness ==
    /\ TokenAtGate /\ Presented = grant.token
    /\ grant.expires_delta = NoDelta /\ IsStr(grant.data.sub)
    /\ clock - grant.at = 31
    /\ InvalidCredential

\* The lines of a header list whose name is, or is not, one of those
\* setup_security_headers sets.
SecurityNames == {Lower(SecurityHeaders[i][1]) : i \in DOMAIN SecurityHeaders}
IsOtherLine(line) == line[1] \notin SecurityNames

\* C11: applying setup_security_headers twice gives the header names and
\* values that applying it once gives; a header that was there, with another
\* value or more than once, ends as one line with the fixed value.
C11_SetupHeadersIdempotent ==
    applied = 2
        => /\ envelope_out = setup_security_headers_raw(envelope_in)
           /\ \A i \in DOMAIN SecurityHeaders :
                Len(SelectSeq(envelope_out.raw,
                              LAMBDA line : line[1] = Lower(SecurityHeaders[i][1]))) = 1

\* Applied twice to a response that came with X-Frame-Options: SAMEORIGIN.
C11_Witness ==
    /\ applied = 2
    /\ \E i \in DOMAIN envelope_in.raw : envelope_in.raw[i] = <<"x-frame-options", "SAMEORIGIN">>
    /\ SelectSeq(envelope_out.raw, LAMBDA line : line[1] = "x-frame-options")
          = << <<"x-frame-options", "DENY">> >>

\* C12: setup_security_headers returns for every response, and leaves the
\* status code, the body and every header line it does not set as they were.
C12_SetupHeadersFrame ==
    applied >= 1
        => /\ envelope_out.status_code = envelope_in.status_code
           /\ envelope_out.body = envelope_in.body
           /\ SelectSeq(envelope_out.raw, IsOtherLine) = SelectSeq(envelope_in.raw, IsOtherLine)
           /\ \A i \in DOMAIN SecurityHeaders :
                \E j \in DOMAIN envelope_out.raw :
                    envelope_out.raw[j] = <<Lower(SecurityHeaders[i][1]), SecurityHeaders[i][2]>>

\* Applied to an error response that carries two cookies.
C12_Witness ==
    /\ applied = 1
    /\ envelope_in.status_code = 500
    /\ envelope_in.raw = << <<"set-cookie", "a=1">>, <<"set-cookie", "b=2">> >>
    /\ SelectSeq(envelope_out.raw, IsOtherLine) = envelope_in.raw
    /\ Len(envelope_out.raw) = 9

\* The metrics as the served request found them, and as the first request
\* of a process finds them.
Seen == Registry(REQUEST_COUNT, REQUEST_DURATION - 1)
SeenAlone == Registry(inc(EmptyDict, <<request.method, request.path>>), 0)

Calls(name) == {i \in DOMAIN session : session[i] = name}

\* An exception reached the session's generator: the one get_current_user
\* raised (answered 401) or the one that left the route function.
RaisedInSession == escaped # NoExc \/ response.status_code = 401

\* C14: a request that holds a session from get_db_session closes it on
\* every path; when an exception is raised the session is rolled back before
\* it is closed and the exception goes on to the caller; when none is raised
\* no rollback is issued.
C14_SessionRollsBackOnException ==
    (Served /\ request.path \in AuthRoutes)
        => /\ Calls("close") # {}
           /\ RaisedInSession
                => /\ Cardinality(Calls("rollback")) = 1
                   /\ \A i \in Calls("rollback"), j \in Calls("close") : i < j
           /\ (handler_ran /\ escaped # NoExc) => response.status_code = 500
           /\ ~RaisedInSession => Calls("rollback") = {}

C14_Witness ==
    /\ Served /\ request.path = "/api/v1/secure"
    /\ escaped = AttributeError
    /\ session = <<"rollback", "close", "close">>
    /\ response.status_code = 500

\* C15: /health/, /health/live and /health/startup answer 200 with status
\* healthy, alive and ready and the time, whether or not init_database
\* succeeded at startup and whatever the Authorization header.
C15_HealthAlways200 ==
    (Served /\ request.path \in {"/health/", "/health/live", "/health/startup"})
        => /\ response.status_code = 200
           /\ response.body.status =
                (CASE request.path = "/health/" -> "healthy"
                   [] request.path = "/health/live" -> "alive"
                   [] request.path = "/health/startup" -> "ready")
           /\ response.body.timestamp = clock

\* /health/live with a Bearer header in a process whose database is down.
C15_Witness ==
    /\ Served /\ request.path = "/health/live"
    /\ ~database.up /\ database.tables = {}
    /\ Bearer
    /\ response.status_code = 200 /\ response.body.status = "alive"

C17_InvalidSameAsAbsent ==
    (Served /\ request.path = "/api/v1/hello" /\ Bearer /\ FailsVerification)
        => (response.status_code = 200 /\ response.body.user_id = None)

\* C17 amended: on /api/v1/hello a request with no Bearer credential (no
\* Authorization header, or one of another scheme) is answered 200 with
\* user_id null, and one with a Bearer token that fails verification is
\* answered 401 without entering the route function.
C17_AbsentAnonymousInvalidRejected ==
    (Served /\ request.path = "/api/v1/hello")
        => /\ ~Bearer => (response.status_code = 200 /\ response.body.user_id = None
                          /\ handler_ran)
           /\ (Bearer /\ FailsVerification) => (InvalidCredential /\ ~handler_ran)

\* /api/v1/hello answers 401 to a Bearer token that is no JWT.
C17_Witness ==
    /\ Served /\ request.path = "/api/v1/hello"
    /\ Bearer /\ Presented = Garbage
    /\ InvalidCredential /\ ~handler_ran

\* C18: no request leaves a row in the database, and the only calls made on
\* a request's session are the probe query of /health/ready, rollback and
\* close.
C18_NothingPersisted ==
    /\ database.rows = {}
    /\ Served => \A i \in DOMAIN session :
                    session[i] \in {"execute:SELECT 1", "rollback", "close"}

\* The third request of a process is identified and nothing is stored.
C18_Witness ==
    /\ Served /\ request.path = "/api/v1/users/me" /\ HasIdentity
    /\ REQUEST_DURATION = 3
    /\ database.up /\ database.rows = {}
    /\ session = <<"close", "close">>

\* The served request with another token in its header.
WithToken(token) == [request EXCEPT !.authorization = Header("Bearer", token)]

\* Another valid token for the subject the caller was identified as.
OtherValidToken ==
    jwt_encode([sub |-> Str(current_user.id),
                exp |-> IF Presented.exp = clock + 1 THEN clock + 2 ELSE clock + 1],
               SECRET_KEY, ALGORITHM)

AuthenticatedEntries == {i \in DOMAIN log : log[i].event = "User authenticated"}

\* C19: a request that is identified logs one "User authenticated" entry
\* with the subject, and the log of a request does not depend on the token:
\* it is the log of the same request with another valid token of the same
\* subject, or with another rejected token.
C19_LogsSubjectNeverToken ==
    TokenAtGate
        => /\ HasIdentity
                => /\ Cardinality(AuthenticatedEntries) = 1
                   /\ \A i \in AuthenticatedEntries :
                        log[i] = [level |-> "info", event |-> "User authenticated",
                                  user_id |-> Presented.sub.val]
                   /\ log = app(WithToken(OtherValidToken), clock, Seen, probe).log
           /\ ~HasIdentity
                => /\ AuthenticatedEntries = {}
                   /\ log = app(WithToken(Garbage), clock, Seen, probe).log

\* A token issued a minute earlier, with a lifetime of its own, identifies
\* the caller.
C19_Witness ==
    /\ TokenAtGate /\ HasIdentity
    /\ Presented = grant.token /\ grant.expires_delta = Minutes(2)
    /\ grant.at = clock - 1
    /\ Presented # OtherValidToken
    /\ Cardinality(AuthenticatedEntries) = 1

\* A log line that names the actor, the action and the outcome.
IsAuditLine(entry) ==
    /\ "user_id" \in DOMAIN entry
    /\ "event" \in DOMAIN entry
    /\ ("outcome" \in DOMAIN entry \/ "status_code" \in DOMAIN entry)

\* C20: every request to /api/v1/secure, /api/v1/users/me or
\* /api/v1/audit-log has logged exactly one line with the actor id, the
\* action and the outcome by the time its response is returned.
C20_OneAuditLinePerInvocation ==
    (Served /\ request.path \in RequiredAuthRoutes)
        => Cardinality({i \in DOMAIN log : IsAuditLine(log[i])}) = 1

\* C27: a token with a valid signature that has not expired is rejected with
\* 401 "Could not validate credentials" exactly when its sub claim is missing
\* or is not a string; the rejection reaches the client as get_current_user
\* raised it (WWW-Authenticate: Bearer, route function not entered), and every
\* string sub, the empty string included, gives an Identity with that id.
C27_RejectedIffSubNotString ==
    (TokenAtGate /\ SignedByService /\ Presented.exp >= clock)
        => /\ InvalidCredential <=> ~IsStr(Presented.sub)
           /\ ~IsStr(Presented.sub)
                => /\ HasHeader(response, "WWW-Authenticate", "Bearer")
                   /\ ~handler_ran
                   /\ escaped = NoExc
           /\ IsStr(Presented.sub)
                => /\ HasIdentity
                   /\ current_user.id = Presented.sub.val

\* A valid, unexpired token whose sub is the empty string identifies the
\* caller as "" on a route that requires authentication.
C27_Witness ==
    /\ TokenAtGate /\ SignedByService /\ Presented.exp >= clock
    /\ request.path = "/api/v1/secure"
    /\ Presented.sub = Str("")
    /\ HasIdentity /\ current_user.id = ""
    /\ response.status_code = 200


\* The entries of a startup during which init_database raised.
StartupWithoutDatabase ==
    << [level |-> "info", event |-> "Starting HIPAA-compliant application",
        version |-> "0.1.0"],
       [level |-> "error", event |-> "Failed to initialize database",
        error |-> "connection refused"],
       [level |-> "warning",
        event |-> "Database initialization failed - application will run without database",
        error |-> "connection refused"] >>

\* The process has just started: nothing was served since lifespan logged.
JustStarted == request = NoRequest /\ REQUEST_DURATION = 0 /\ log # <<>>

\* C21: a failure of init_database never keeps the application from
\* serving: startup always reaches the serving state, and when the database
\* cannot be reached the startup log is the error of init_database followed
\* by the warning of lifespan.
C21_StartupSurvivesDatabaseFailure ==
    /\ serving
    /\ (JustStarted /\ ~database.up) => log = StartupWithoutDatabase
    /\ (JustStarted /\ database.up) => \A i \in DOMAIN log : log[i].level = "info"

\* The application started with the database out of reach and a route that
\* holds a session was served to an identified caller.
C21_Witness ==
    /\ Served /\ serving /\ ~database.up
    /\ request.path = "/api/v1/secure"
    /\ response.status_code = 200
    /\ HasIdentity


\* A request to /health/ready has been served.
ReadyServed == Served /\ request.path = "/health/ready"

\* C28: a session readiness_check took from get_db_session is closed when
\* readiness_check returns: whenever a call was made on the session, the
\* last call before the response is close.
C28_ReadinessClosesSession ==
    (ReadyServed /\ session # <<>>) => session[Len(session)] = "close"

\* C29: readiness_check lets no exception out and answers 200 with the
\* top-level status healthy; services.database.status is healthy for a
\* truthy result of the probe, unhealthy for a falsy one and unavailable
\* when a step raised, and external_apis is reported healthy.
C29_ReadinessNeverRaises ==
    ReadyServed
        => /\ escaped = NoExc
           /\ handler_ran
           /\ response.status_code = 200
           /\ response.body.status = "healthy"
           /\ response.body.timestamp = clock
           /\ response.body.services.external_apis = [status |-> "healthy"]
           /\ response.body.services.database.status =
                (CASE probe = "truthy" -> "healthy"
                   [] probe = "falsy" -> "unhealthy"
                   [] probe \in {"execute raises", "no session"} -> "unavailable")
           /\ (probe \in {"execute raises", "no session"})
                <=> (\E i \in DOMAIN log : log[i].event = "Database health check failed")

\* db.execute raised while the database was reachable at startup: the answer
\* is 200, healthy at the top and unavailable for the database.
C29_Witness ==
    /\ ReadyServed /\ probe = "execute raises" /\ database.up
    /\ response.status_code = 200
    /\ response.body.status = "healthy"
    /\ response.body.services.database.status = "unavailable"


\* The entries of request i with the given event.
EntriesOf(i, event) ==
    { k \in DOMAIN inflight[i].log : inflight[i].log[k].event = event }

\* The requests received so far for a pair of labels.
ReceivedFor(labels) ==
    { i \in 1..MaxInFlight :
        inflight[i].phase # "idle" /\ <<"GET", inflight[i].path>> = labels }

\* C30: each request has "Request received" as its first entry, once; a
\* request whose handler returned has "Request completed" once, as its last
\* entry, with the status code; a request whose handler raised or has not
\* returned yet has none; and under every interleaving REQUEST_COUNT of a
\* (method, path) pair is the number of requests received for it.
C30_ReceivedCountedCompleted ==
    /\ \A i \in 1..MaxInFlight :
         inflight[i].phase # "idle"
            => /\ EntriesOf(i, "Request received") = {1}
               /\ IF inflight[i].phase = "completed"
                  THEN /\ EntriesOf(i, "Request completed") = {Len(inflight[i].log)}
                       /\ Len(inflight[i].log) > 1
                       /\ inflight[i].log[Len(inflight[i].log)].status_code
                             = (IF inflight[i].path = UnknownPath THEN 404 ELSE 200)
                  ELSE EntriesOf(i, "Request completed") = {}
    /\ \A path \in LoadPaths :
         LET labels == <<"GET", path>>
         IN  IF ReceivedFor(labels) = {}
             THEN labels \notin DOMAIN REQUEST_COUNT
             ELSE /\ labels \in DOMAIN REQUEST_COUNT
                  /\ REQUEST_COUNT[labels] = Cardinality(ReceivedFor(labels))

\* Two requests to /api/v1/secure overlap with one to /health/: the first
\* raised in its handler and has no "Request completed" entry, the second is
\* still in its handler, the third is completed; the counter of
\* /api/v1/secure is two.
C30_Witness ==
    /\ inflight[1].path = "/api/v1/secure" /\ inflight[1].phase = "raised"
    /\ inflight[2].path = "/api/v1/secure" /\ inflight[2].phase = "received"
    /\ inflight[3].path = "/health/" /\ inflight[3].phase = "completed"
    /\ REQUEST_COUNT[<<"GET", "/api/v1/secure">>] = 2
    /\ REQUEST_DURATION = 2
    /\ EntriesOf(1, "Request completed") = {}
    /\ EntriesOf(1, "Unhandled exception") # {}


\* `result` is `given` with the value of every sensitive key replaced by the
\* marker, inside dicts and lists at every depth, and everything else as it
\* was.
RECURSIVE Redacted(_, _)
Redacted(given, result) ==
    IF given.tag = "dict"
    THEN /\ result.tag = "dict"
         /\ DOMAIN result.items = DOMAIN given.items
         /\ \A key \in DOMAIN given.items :
               IF Lower(key) \in sensitive_fields
               THEN result.items[key] = REDACTED
               ELSE Redacted(given.items[key], result.items[key])
    ELSE IF given.tag = "list"
    THEN /\ result.tag = "list"
         /\ Len(result.elems) = Len(given.elems)
         /\ \A i \in DOMAIN given.elems : Redacted(given.elems[i], result.elems[i])
    ELSE result = given

\* C22: in the dict sanitize_log_data returns every value under a sensitive
\* key (compared in lower case) is "[REDACTED]", in dicts nested in dicts and
\* in lists at every depth, and every other key and value is unchanged.
C22_SensitiveRedactedAtEveryDepth ==
    sanitized # None => Redacted(log_data, sanitized)


\* C23: the database group admits ingress only on 5432 and only from the
\* ECS group, the ECS group only on 8000 and only from the load balancer's
\* group, and a client on the internet is admitted only by the load
\* balancer's group, on 80 and 443; so a client that has reached the database
\* came to it from ECS, to ECS from the load balancer, and entered at the
\* load balancer.
C23_NetworkSegmentation ==
    /\ \A src \in Nodes, port \in Ports :
          /\ IngressAdmits(Groups.rds_security_group, src, port)
                <=> (src = "ecs" /\ port = 5432)
          /\ IngressAdmits(Groups.ecs_security_group, src, port)
                <=> (src = "alb" /\ port = 8000)
    /\ \A dst \in Nodes \ {Internet}, port \in Ports :
          IngressAdmits(GroupOf(dst), Internet, port)
                <=> (dst = "alb" /\ port \in {80, 443})
    /\ route # <<>> => route[1].src = Internet /\ route[1].dst = "alb"
    /\ \A i \in DOMAIN route :
          /\ route[i].dst = "rds"
                => /\ route[i].src = "ecs" /\ route[i].port = 5432
                   /\ i > 2
                   /\ route[i - 1] = Hop("alb", "ecs", 8000)
          /\ route[i].dst = "ecs" => route[i].src = "alb" /\ route[i].port = 8000
          /\ route[i].src \notin {Internet, "ecs"} => route[i].dst # "rds"

\* A client from the internet reaches the database through the load
\* balancer and ECS.
C23_Witness ==
    route = << Hop(Internet, "alb", 443), Hop("alb", "ecs", 8000), Hop("ecs", "rds", 5432) >>


\* The deployment is over: the program has ended and the engine has nothing
\* left to create.
Deployed ==
    /\ ~Running
    /\ \A r \in Registered : r.name \in created

\* C26: whatever the order of provisioning, a Config rule exists only if the
\* configuration recorder does, the load balancer only if the policy of the
\* access-log bucket does, and the ECS service only if the target group does.
C26_DeclaredOrderRespected ==
    /\ \A rule \in ConfigRules : rule \in created => "config-recorder" \in created
    /\ "hipaa-alb" \in created => "alb-logs-bucket-policy" \in created
    /\ "hipaa-app-service" \in created => "hipaa-app-tg" \in created

\* The stack is deployed: the six rules, the load balancer and the service
\* exist.
C26_Witness ==
    /\ program = MainProgram /\ Deployed
    /\ ConfigRules \cup {"hipaa-alb", "hipaa-app-service"} \subseteq created

\* C24: the Secrets Manager program creates the KMS key, then the database
\* secret with the generated password, then the RDS instance, then the
\* updated version of the secret: at the end of the deployment all four
\* exist, and at no moment does one exist without those before it.
C24_SecretsProgramOrder ==
    program = SecretsProgram
        => /\ Deployed
                => {"hipaa-kms-key", "hipaa-db-secret-version-dev", "hipaa-database",
                    "hipaa-db-secret-updated-dev"} \subseteq created
           /\ "hipaa-db-secret-version-dev" \in created => "hipaa-kms-key" \in created
           /\ "hipaa-database" \in created => "hipaa-db-secret-version-dev" \in created
           /\ "hipaa-db-secret-updated-dev" \in created => "hipaa-database" \in created

\* C25: the read of update_database_secret observes the version written by
\* create_database_secret, and the version update_database_secret writes is
\* that version with only the host replaced by the endpoint.
C25_UpdatePreservesPassword ==
    /\ observed # None => observed = InitialSecret(db_password)
    /\ "hipaa-db-secret-updated-dev" \in created
          => versions[Len(versions)]
               = json_dumps(Updated(json_loads(InitialSecret(db_password)),
                                    "host", Str(Endpoint)))

====
